---- MODULE Spec2Model ----
(***************************************************************************)
(* A model of threadpool.h: a fixed-size pool of detached worker threads   *)
(* that pop task records from a mutex-protected LIFO stack.                *)
(*                                                                         *)
(* Threads: the creator thread (MainThread) runs main() of                 *)
(* threadpool_test.c generalised: POOL_create(num_threads), up to MaxCalls *)
(* POOL_exectask calls of one task function, and at any point after        *)
(* POOL_create (or never) POOL_destroy.                                    *)
(* Workers 1..num_threads run await_and_do_tasks.  A task function may     *)
(* itself call POOL_exectask, which is how submissions race with           *)
(* POOL_destroy inside the pool's lifetime.                                *)
(*                                                                         *)
(* Every pthread_mutex_lock, every critical-section body and every         *)
(* pthread_mutex_unlock is a separate step.                                *)
(***************************************************************************)
EXTENDS Integers, Sequences, FiniteSets, TLC

\* ------------------------------------------------------------------ bounds
\* Largest num_threads handed to POOL_create.
MaxThreads == 2
\* Largest number of POOL_exectask calls made by the creator thread.
MaxCalls == 3

\* ------------------------------------------------------- program constants
NULL == 0
MainThread == 0

Workers == 1..MaxThreads
Threads == {MainThread} \cup Workers
\* Task ids: the creator's k-th call passes task_args = k; a task "spawn"
\* with argument k submits a task with argument MaxCalls + k.
TaskIds == 1..(2 * MaxCalls)
\* Heap addresses malloc can hand out for TaskStack records.
Addrs == 1..(2 * MaxCalls)
\* Task functions: nothing() of the test, a read-then-write increment of a
\* shared counter, and a task that submits another task to the pool.
TaskFns == {"nothing", "incr", "spawn"}

VARIABLES
    \* struct Threadpool
    pool_mutex,            \* [state: "unlocked" | "locked" | "destroyed", owner]
    task_stack,            \* head pointer: an address or NULL
    num_threads,
    num_threads_running,
    threads,               \* [alloc: "none" | "live" | "freed", handles: set of workers]
    is_shutdown,
    \* the heap of TaskStack records
    heap,                  \* address -> [task_fn, task_args, next]
    allocated,             \* addresses malloc'ed and not yet freed
    \* threads
    pc,                    \* thread -> program location
    work,                  \* worker -> local TaskStack* work
    cur,                   \* worker -> [task_fn, task_args] extracted from work
    tmp,                   \* worker -> local of the increment task
    ex,                    \* thread -> [task_fn, task_args] of its POOL_exectask call
    waiting,               \* local of POOL_destroy
    spawn_i,               \* loop variable i of POOL_create
    calls,                 \* POOL_exectask calls begun by the creator thread
    workload,              \* the task function the creator thread submits
    counter,               \* the shared counter the "incr" tasks increment
    exited,                \* exit(1) was called
    \* history
    last_ret,              \* thread -> result of its latest POOL_exectask call
    accepted,              \* task ids in the order their records were pushed
    started,               \* task ids in the order their task_fn was invoked
    completed,             \* task id -> number of times its task_fn returned
    pop_before_push,       \* a push happened after some pop
    popped,                \* number of records popped so far
    unlocked_access        \* a thread touched shared pool state without the mutex

vars == <<pool_mutex, task_stack, num_threads, num_threads_running, threads,
          is_shutdown, heap, allocated, pc, work, cur, tmp, ex, waiting,
          spawn_i, calls, workload, counter, exited, last_ret, accepted, started,
          completed, pop_before_push, popped, unlocked_access>>

pool == <<pool_mutex, task_stack, num_threads, num_threads_running, threads, is_shutdown>>
hist == <<last_ret, accepted, started, completed, pop_before_push, popped, unlocked_access>>

Blank == [task_fn |-> "none", task_args |-> 0, next |-> NULL]
NoTask == [task_fn |-> "none", task_args |-> 0]

\* ------------------------------------------------------------------ helpers
Unlocked == [state |-> "unlocked", owner |-> MainThread]
LockedBy(t) == [state |-> "locked", owner |-> t]
Holds(t) == pool_mutex.state = "locked" /\ pool_mutex.owner = t

Min(S) == CHOOSE x \in S : \A y \in S : x <= y

\* malloc(sizeof(TaskStack)): an address not in use.
malloc == Min(Addrs \ allocated)

\* The records reachable from address a through next, at most n of them.
RECURSIVE Chain(_, _)
Chain(a, n) ==
    IF a = NULL \/ n = 0 THEN <<>>
    ELSE <<a>> \o Chain(heap[a].next, n - 1)

\* The stack as the sequence of addresses from the head.
Stack == Chain(task_stack, Cardinality(Addrs) + 1)

Goto(t, loc) == pc' = [pc EXCEPT ![t] = loc]

\* A critical-section body run by t records whether t holds the mutex.
Access(t) == unlocked_access' = (unlocked_access \/ ~Holds(t))

\* ------------------------------------------------------ POOL_CRITICAL_BEGIN
\* (mutant) a lock that never blocks.
MutexAlwaysFree == pool_mutex.state # "destroyed"

\* pthread_mutex_lock succeeds when the mutex is free.
MutexFree == pool_mutex.state = "unlocked"

\* pthread_mutex_lock by t, continuing at loc.  Blocks while another thread
\* holds the mutex.  Relocking a default mutex the caller already owns is
\* undefined: the call blocks forever (no step) or fails with EDEADLK, and
\* then the macro calls exit(1).
POOL_CRITICAL_BEGIN(t, loc) ==
    \/ /\ MutexFree
       /\ pool_mutex' = LockedBy(t)
       /\ Goto(t, loc)
       /\ UNCHANGED exited
    \/ /\ Holds(t)
       /\ exited' = TRUE
       /\ UNCHANGED <<pool_mutex, pc>>

\* pthread_mutex_unlock by t.
POOL_CRITICAL_END(t) ==
    /\ pool_mutex.state = "locked"
    /\ pool_mutex' = Unlocked

\* ------------------------------------------------------------- POOL_create
POOL_create_init ==
    /\ ~exited
    /\ pc[MainThread] = "create"
    /\ pool_mutex' = Unlocked
    /\ task_stack' = NULL
    /\ is_shutdown' = FALSE
    /\ num_threads_running' = num_threads
    /\ threads' = [alloc |-> "live", handles |-> {}]
    /\ spawn_i' = 0
    /\ Goto(MainThread, "create_loop")
    /\ UNCHANGED <<num_threads, heap, allocated, work, cur, tmp, ex, waiting,
                   calls, workload, counter, exited, hist>>

\* (mutant) the loop runs one iteration too many.
MoreToSpawnOffByOne == spawn_i <= num_threads

\* (mutant) the loop stops one iteration early.
MoreToSpawnOneShort == spawn_i + 1 < num_threads

\* i < num_threads
MoreToSpawn == spawn_i < num_threads

\* One iteration of the pthread_create loop, or its exit.
POOL_create_spawn ==
    /\ ~exited
    /\ pc[MainThread] = "create_loop"
    /\ IF MoreToSpawn
       THEN /\ threads' = [threads EXCEPT !.handles = @ \cup {spawn_i + 1}]
            /\ pc' = [pc EXCEPT ![spawn_i + 1] = "w_lock"]
            /\ spawn_i' = spawn_i + 1
       ELSE /\ Goto(MainThread, "main")
            /\ UNCHANGED <<threads, spawn_i>>
    /\ UNCHANGED <<pool_mutex, task_stack, num_threads, num_threads_running,
                   is_shutdown, heap, allocated, work, cur, tmp, ex, waiting,
                   calls, workload, counter, exited, hist>>

\* ----------------------------------------------------------- POOL_exectask
\* The creator thread calls POOL_exectask(pool, workload, calls + 1).
MainCallsExectask ==
    /\ ~exited
    /\ pc[MainThread] = "main"
    /\ calls < MaxCalls
    /\ calls' = calls + 1
    /\ ex' = [ex EXCEPT ![MainThread] = [task_fn |-> workload, task_args |-> calls + 1]]
    /\ last_ret' = [last_ret EXCEPT ![MainThread] = "pending"]
    /\ Goto(MainThread, "ex_lock")
    /\ UNCHANGED <<pool, heap, allocated, work, cur, tmp, waiting, spawn_i,
                   workload, counter, exited, accepted, started, completed,
                   pop_before_push, popped, unlocked_access>>

exectask_lock(t) ==
    /\ ~exited
    /\ pc[t] = "ex_lock"
    /\ POOL_CRITICAL_BEGIN(t, "ex_cs")
    /\ UNCHANGED <<task_stack, num_threads, num_threads_running, threads,
                   is_shutdown, heap, allocated, work, cur, tmp, ex, waiting,
                   spawn_i, calls, workload, counter, hist>>

\* Where control goes when POOL_exectask returns to its caller: the creator
\* thread is back in main(); in a worker the calling task function returns.
AfterCall(t) == IF t = MainThread THEN "main" ELSE "t_return"

\* The rejected path: `return 0` inside the critical section.
exectask_reject(t) ==
    /\ last_ret' = [last_ret EXCEPT ![t] = "false"]
    /\ ex' = [ex EXCEPT ![t] = NoTask]
    /\ Goto(t, AfterCall(t))
    /\ UNCHANGED <<pool_mutex, task_stack, heap, allocated, accepted, pop_before_push>>

\* (mutant) the new record loses the caller's argument.
PushedRecordDropsArgs(t) ==
    [task_fn |-> ex[t].task_fn, task_args |-> NULL, next |-> task_stack]

\* (mutant) the new record is not linked to the old head.
PushedRecordUnlinked(t) ==
    [task_fn |-> ex[t].task_fn, task_args |-> ex[t].task_args, next |-> NULL]

\* The record pushed for the call of t: work->next = pool->task_stack.
PushedRecord(t) ==
    [task_fn |-> ex[t].task_fn, task_args |-> ex[t].task_args, next |-> task_stack]

\* (mutant) the new record is appended behind the last one (a FIFO queue).
exectask_push_tail(t) ==
    /\ heap' = IF task_stack = NULL
               THEN [heap EXCEPT ![malloc] = PushedRecordUnlinked(t)]
               ELSE [heap EXCEPT ![malloc] = PushedRecordUnlinked(t),
                                 ![Stack[Len(Stack)]].next = malloc]
    /\ allocated' = allocated \cup {malloc}
    /\ task_stack' = IF task_stack = NULL THEN malloc ELSE task_stack
    /\ accepted' = Append(accepted, ex[t].task_args)
    /\ pop_before_push' = (pop_before_push \/ popped > 0)
    /\ Goto(t, "ex_unlock")
    /\ UNCHANGED <<pool_mutex, ex, last_ret>>

\* The accepted path: malloc a record, fill it, link it in as the new head.
exectask_push(t) ==
    /\ heap' = [heap EXCEPT ![malloc] = PushedRecord(t)]
    /\ allocated' = allocated \cup {malloc}
    /\ task_stack' = malloc
    /\ accepted' = Append(accepted, ex[t].task_args)
    /\ pop_before_push' = (pop_before_push \/ popped > 0)
    /\ Goto(t, "ex_unlock")
    /\ UNCHANGED <<pool_mutex, ex, last_ret>>

\* (mutant) no call is ever rejected.
RejectsNever == FALSE

\* if (pool->is_shutdown)
Rejects == is_shutdown

exectask_cs(t) ==
    /\ ~exited
    /\ pc[t] = "ex_cs"
    /\ Access(t)
    /\ IF Rejects THEN exectask_reject(t) ELSE exectask_push(t)
    /\ UNCHANGED <<num_threads, num_threads_running, threads, is_shutdown,
                   work, cur, tmp, waiting, spawn_i, calls, workload, counter, exited,
                   started, completed, popped>>

exectask_unlock(t) ==
    /\ ~exited
    /\ pc[t] = "ex_unlock"
    /\ POOL_CRITICAL_END(t)
    /\ last_ret' = [last_ret EXCEPT ![t] = "true"]
    /\ ex' = [ex EXCEPT ![t] = NoTask]
    /\ Goto(t, AfterCall(t))
    /\ UNCHANGED <<task_stack, num_threads, num_threads_running, threads,
                   is_shutdown, heap, allocated, work, cur, tmp, waiting,
                   spawn_i, calls, workload, counter, exited, accepted, started,
                   completed, pop_before_push, popped, unlocked_access>>

\* ------------------------------------------------------ await_and_do_tasks
worker_lock(w) ==
    /\ ~exited
    /\ pc[w] = "w_lock"
    /\ POOL_CRITICAL_BEGIN(w, "w_cs")
    /\ UNCHANGED <<task_stack, num_threads, num_threads_running, threads,
                   is_shutdown, heap, allocated, work, cur, tmp, ex, waiting,
                   spawn_i, calls, workload, counter, hist>>

\* (mutant) the worker leaves its loop as soon as shutdown is requested.
WorkerShouldExitIgnoringStack == is_shutdown

\* The worker leaves its loop: shutdown was requested and the stack is empty.
WorkerShouldExit == is_shutdown /\ task_stack = NULL

\* (mutant) the pop drops the whole stack.
PoppedStackDropsAll == NULL

\* The head pointer after the worker took `work`.
PoppedStack == IF task_stack # NULL THEN heap[task_stack].next ELSE task_stack

\* (mutant) the exiting worker does not count itself out.
RunningAfterExitSame == num_threads_running
\* (mutant) the exiting worker counts itself out twice.
RunningAfterExitTwice == num_threads_running - 2

\* pool->num_threads_running--
RunningAfterExit == num_threads_running - 1

worker_cs(w) ==
    /\ ~exited
    /\ pc[w] = "w_cs"
    /\ Access(w)
    /\ IF WorkerShouldExit
       THEN /\ num_threads_running' = RunningAfterExit
            /\ Goto(w, "w_exit_unlock")
            /\ UNCHANGED <<task_stack, work, popped>>
       ELSE /\ work' = [work EXCEPT ![w] = task_stack]
            /\ task_stack' = PoppedStack
            /\ popped' = IF task_stack # NULL THEN popped + 1 ELSE popped
            /\ Goto(w, "w_unlock")
            /\ UNCHANGED num_threads_running
    /\ UNCHANGED <<pool_mutex, num_threads, threads, is_shutdown, heap,
                   allocated, cur, tmp, ex, waiting, spawn_i, calls, workload, counter,
                   exited, last_ret, accepted, started, completed,
                   pop_before_push>>

\* POOL_CRITICAL_END; return NULL;
worker_exit(w) ==
    /\ ~exited
    /\ pc[w] = "w_exit_unlock"
    /\ POOL_CRITICAL_END(w)
    /\ Goto(w, "EXITED")
    /\ UNCHANGED <<task_stack, num_threads, num_threads_running, threads,
                   is_shutdown, heap, allocated, work, cur, tmp, ex, waiting,
                   spawn_i, calls, workload, counter, exited, hist>>

\* (mutant) the mutex is kept while the task runs.
worker_unlock_keep(w) ==
    /\ ~exited
    /\ pc[w] = "w_unlock"
    /\ IF work[w] # NULL THEN UNCHANGED pool_mutex ELSE POOL_CRITICAL_END(w)
    /\ Goto(w, IF work[w] # NULL THEN "w_extract" ELSE "w_lock")
    /\ UNCHANGED <<task_stack, num_threads, num_threads_running, threads,
                   is_shutdown, heap, allocated, work, cur, tmp, ex, waiting,
                   spawn_i, calls, workload, counter, exited, hist>>

\* POOL_CRITICAL_END, then the test of `work`: sched_yield and continue when
\* there is none.
worker_unlock(w) ==
    /\ ~exited
    /\ pc[w] = "w_unlock"
    /\ POOL_CRITICAL_END(w)
    /\ Goto(w, IF work[w] # NULL THEN "w_extract" ELSE "w_lock")
    /\ UNCHANGED <<task_stack, num_threads, num_threads_running, threads,
                   is_shutdown, heap, allocated, work, cur, tmp, ex, waiting,
                   spawn_i, calls, workload, counter, exited, hist>>

\* The first location of a task function.
Entry(fn) ==
    CASE fn = "nothing" -> "t_return"
      [] fn = "incr" -> "t_incr_read"
      [] fn = "spawn" -> "t_spawn"
      [] OTHER -> "t_return"

\* Extract task_fn and task_args, free(work), call task_fn(task_args).
worker_extract(w) ==
    /\ ~exited
    /\ pc[w] = "w_extract"
    /\ cur' = [cur EXCEPT ![w] = [task_fn |-> heap[work[w]].task_fn,
                                  task_args |-> heap[work[w]].task_args]]
    /\ heap' = [heap EXCEPT ![work[w]] = Blank]
    /\ allocated' = allocated \ {work[w]}
    /\ started' = Append(started, heap[work[w]].task_args)
    /\ Goto(w, Entry(heap[work[w]].task_fn))
    /\ UNCHANGED <<pool, work, tmp, ex, waiting, spawn_i, calls, workload, counter,
                   exited, last_ret, accepted, completed, pop_before_push,
                   popped, unlocked_access>>

\* ------------------------------------------------------------ task bodies
task_incr_read(w) ==
    /\ ~exited
    /\ pc[w] = "t_incr_read"
    /\ tmp' = [tmp EXCEPT ![w] = counter]
    /\ Goto(w, "t_incr_write")
    /\ UNCHANGED <<pool, heap, allocated, work, cur, ex, waiting, spawn_i,
                   calls, workload, counter, exited, hist>>

task_incr_write(w) ==
    /\ ~exited
    /\ pc[w] = "t_incr_write"
    /\ counter' = tmp[w] + 1
    /\ tmp' = [tmp EXCEPT ![w] = 0]
    /\ Goto(w, "t_return")
    /\ UNCHANGED <<pool, heap, allocated, work, cur, ex, waiting, spawn_i,
                   calls, workload, exited, hist>>

\* The task calls POOL_exectask(pool, nothing, MaxCalls + task_args).
task_spawn(w) ==
    /\ ~exited
    /\ pc[w] = "t_spawn"
    /\ ex' = [ex EXCEPT ![w] = [task_fn |-> "nothing",
                                task_args |-> MaxCalls + cur[w].task_args]]
    /\ last_ret' = [last_ret EXCEPT ![w] = "pending"]
    /\ Goto(w, "ex_lock")
    /\ UNCHANGED <<pool, heap, allocated, work, cur, tmp, waiting, spawn_i,
                   calls, workload, counter, exited, accepted, started, completed,
                   pop_before_push, popped, unlocked_access>>

\* task_fn returns; the worker loops (work = NULL at the top of the loop).
task_return(w) ==
    /\ ~exited
    /\ pc[w] = "t_return"
    /\ completed' = [completed EXCEPT ![cur[w].task_args] = @ + 1]
    /\ cur' = [cur EXCEPT ![w] = NoTask]
    /\ work' = [work EXCEPT ![w] = NULL]
    /\ Goto(w, "w_lock")
    /\ UNCHANGED <<pool, heap, allocated, tmp, ex, waiting, spawn_i, calls, workload,
                   counter, exited, last_ret, accepted, started,
                   pop_before_push, popped, unlocked_access>>

\* ------------------------------------------------------------ POOL_destroy
MainCallsDestroy ==
    /\ ~exited
    /\ pc[MainThread] = "main"
    /\ Goto(MainThread, "d_lock1")
    /\ UNCHANGED <<pool, heap, allocated, work, cur, tmp, ex, waiting,
                   spawn_i, calls, workload, counter, exited, hist>>

destroy_lock(loc, nextloc) ==
    /\ ~exited
    /\ pc[MainThread] = loc
    /\ POOL_CRITICAL_BEGIN(MainThread, nextloc)
    /\ UNCHANGED <<task_stack, num_threads, num_threads_running, threads,
                   is_shutdown, heap, allocated, work, cur, tmp, ex, waiting,
                   spawn_i, calls, workload, counter, hist>>

destroy_unlock(loc, nextloc) ==
    /\ ~exited
    /\ pc[MainThread] = loc
    /\ POOL_CRITICAL_END(MainThread)
    /\ Goto(MainThread, nextloc)
    /\ UNCHANGED <<task_stack, num_threads, num_threads_running, threads,
                   is_shutdown, heap, allocated, work, cur, tmp, ex, waiting,
                   spawn_i, calls, workload, counter, exited, hist>>

destroy_lock1 == destroy_lock("d_lock1", "d_set")

destroy_set_shutdown ==
    /\ ~exited
    /\ pc[MainThread] = "d_set"
    /\ Access(MainThread)
    /\ is_shutdown' = TRUE
    /\ waiting' = TRUE
    /\ Goto(MainThread, "d_unlock1")
    /\ UNCHANGED <<pool_mutex, task_stack, num_threads, num_threads_running,
                   threads, heap, allocated, work, cur, tmp, ex, spawn_i,
                   calls, workload, counter, exited, last_ret, accepted, started,
                   completed, pop_before_push, popped>>

destroy_unlock1 == destroy_unlock("d_unlock1", "d_lock2")

\* First wait loop: sched_yield, then read task_stack under the mutex.
destroy_lock2 == destroy_lock("d_lock2", "d_read_stack")

destroy_read_stack ==
    /\ ~exited
    /\ pc[MainThread] = "d_read_stack"
    /\ Access(MainThread)
    /\ waiting' = (task_stack # NULL)
    /\ Goto(MainThread, "d_unlock2")
    /\ UNCHANGED <<pool, heap, allocated, work, cur, tmp, ex, spawn_i, calls, workload,
                   counter, exited, last_ret, accepted, started, completed,
                   pop_before_push, popped>>

\* End of an iteration of the first loop; on leaving it, waiting = true.
destroy_unlock2 ==
    /\ ~exited
    /\ pc[MainThread] = "d_unlock2"
    /\ POOL_CRITICAL_END(MainThread)
    /\ Goto(MainThread, IF waiting THEN "d_lock2" ELSE "d_lock3")
    /\ waiting' = TRUE
    /\ UNCHANGED <<task_stack, num_threads, num_threads_running, threads,
                   is_shutdown, heap, allocated, work, cur, tmp, ex, spawn_i,
                   calls, workload, counter, exited, hist>>

\* Second wait loop: read num_threads_running under the mutex.
destroy_lock3 == destroy_lock("d_lock3", "d_read_running")

\* (mutant) the second wait loop does not wait.
StillRunningNever == FALSE
\* (mutant) the second wait loop stops one worker early.
StillRunningOffByOne == num_threads_running > 1

\* waiting = pool->num_threads_running
StillRunning == num_threads_running # 0

destroy_read_running ==
    /\ ~exited
    /\ pc[MainThread] = "d_read_running"
    /\ Access(MainThread)
    /\ waiting' = StillRunning
    /\ Goto(MainThread, "d_unlock3")
    /\ UNCHANGED <<pool, heap, allocated, work, cur, tmp, ex, spawn_i, calls, workload,
                   counter, exited, last_ret, accepted, started, completed,
                   pop_before_push, popped>>

destroy_unlock3 ==
    /\ ~exited
    /\ pc[MainThread] = "d_unlock3"
    /\ POOL_CRITICAL_END(MainThread)
    /\ Goto(MainThread, IF waiting THEN "d_lock3" ELSE "d_teardown")
    /\ UNCHANGED <<task_stack, num_threads, num_threads_running, threads,
                   is_shutdown, heap, allocated, work, cur, tmp, ex, waiting,
                   spawn_i, calls, workload, counter, exited, hist>>

\* pthread_mutex_destroy; free(pool->threads); return.
destroy_teardown ==
    /\ ~exited
    /\ pc[MainThread] = "d_teardown"
    /\ pool_mutex' = [pool_mutex EXCEPT !.state = "destroyed"]
    /\ threads' = [threads EXCEPT !.alloc = "freed"]
    /\ Goto(MainThread, "destroyed")
    /\ UNCHANGED <<task_stack, num_threads, num_threads_running, is_shutdown,
                   heap, allocated, work, cur, tmp, ex, waiting, spawn_i,
                   calls, workload, counter, exited, hist>>

\* ---------------------------------------------------------- specification
Init ==
    /\ num_threads \in 1..MaxThreads
    /\ pool_mutex = Unlocked
    /\ task_stack = NULL
    /\ num_threads_running = 0
    /\ threads = [alloc |-> "none", handles |-> {}]
    /\ is_shutdown = FALSE
    /\ heap = [a \in Addrs |-> Blank]
    /\ allocated = {}
    /\ pc = [t \in Threads |-> IF t = MainThread THEN "create" ELSE "unborn"]
    /\ work = [w \in Workers |-> NULL]
    /\ cur = [w \in Workers |-> NoTask]
    /\ tmp = [w \in Workers |-> 0]
    /\ ex = [t \in Threads |-> NoTask]
    /\ waiting = FALSE
    /\ spawn_i = 0
    /\ calls = 0
    /\ workload \in TaskFns
    /\ counter = 0
    /\ exited = FALSE
    /\ last_ret = [t \in Threads |-> "none"]
    /\ accepted = <<>>
    /\ started = <<>>
    /\ completed = [k \in TaskIds |-> 0]
    /\ pop_before_push = FALSE
    /\ popped = 0
    /\ unlocked_access = FALSE

\* The steps of a call of POOL_exectask by thread t.
ExectaskStep(t) == exectask_lock(t) \/ exectask_cs(t) \/ exectask_unlock(t)

\* The steps of worker w, the tasks it runs included.
WorkerStep(w) ==
    \/ worker_lock(w) \/ worker_cs(w) \/ worker_unlock(w) \/ worker_exit(w)
    \/ worker_extract(w)
    \/ task_incr_read(w) \/ task_incr_write(w) \/ task_spawn(w) \/ task_return(w)
    \/ ExectaskStep(w)

\* The steps of POOL_create and POOL_destroy once called.
CreateStep == POOL_create_init \/ POOL_create_spawn
DestroyStep ==
    \/ destroy_lock1 \/ destroy_set_shutdown \/ destroy_unlock1
    \/ destroy_lock2 \/ destroy_read_stack \/ destroy_unlock2
    \/ destroy_lock3 \/ destroy_read_running \/ destroy_unlock3
    \/ destroy_teardown

Next ==
    \/ CreateStep
    \/ MainCallsExectask
    \/ ExectaskStep(MainThread)
    \/ MainCallsDestroy
    \/ DestroyStep
    \/ \E w \in Workers : WorkerStep(w)

Spec == Init /\ [][Next]_vars

\* Fair scheduling: a thread inside a pool function keeps taking steps, and a
\* thread spinning on pthread_mutex_lock gets the mutex if it is free again
\* and again.  The creator thread is never forced to call POOL_exectask or
\* POOL_destroy, and the EDEADLK outcome of a relock is never forced.
FairStep(A) == A /\ exited' = FALSE
FairSpec ==
    /\ Spec
    /\ SF_vars(FairStep(CreateStep \/ ExectaskStep(MainThread) \/ DestroyStep))
    /\ \A w \in Workers : SF_vars(FairStep(WorkerStep(w)))

\* ------------------------------------------------------- shared vocabulary
\* How often x occurs in the sequence s.
Count(s, x) == Cardinality({i \in 1..Len(s) : s[i] = x})

\* The workers POOL_create was asked for.
Pool == 1..num_threads

\* Locations between a pthread_mutex_lock and the matching unlock.
CriticalLocs == {"ex_cs", "ex_unlock", "w_cs", "w_unlock", "w_exit_unlock",
                 "d_set", "d_unlock1", "d_read_stack", "d_unlock2",
                 "d_read_running", "d_unlock3"}
\* Locations at a pthread_mutex_lock.
LockLocs == {"ex_lock", "w_lock", "d_lock1", "d_lock2", "d_lock3"}
\* Locations inside a task function (a nested POOL_exectask call included).
TaskLocs == {"t_incr_read", "t_incr_write", "t_spawn", "t_return",
             "ex_lock", "ex_cs", "ex_unlock"}

InTask(w) == pc[w] \in TaskLocs
DestroyReturned == pc[MainThread] = "destroyed"

\* Task ids of the records in the stack, head first.
StackTasks == [i \in 1..Len(Stack) |-> heap[Stack[i]].task_args]

\* -------------------------------------------------------------------- C1
\* C1: when POOL_destroy has returned, every task whose POOL_exectask call
\* was accepted has been executed exactly once and has completed, no other
\* execution happened, and no task is still in progress.
C1_DestroyRunsEveryAcceptedTaskOnce ==
    DestroyReturned =>
        /\ \A k \in TaskIds :
              /\ Count(accepted, k) <= 1
              /\ Count(started, k) = Count(accepted, k)
              /\ completed[k] = Count(accepted, k)
        /\ Len(started) = Len(accepted)
        /\ \A w \in Workers : ~InTask(w)
        /\ task_stack = NULL

C1_Witness ==
    /\ DestroyReturned
    /\ num_threads = MaxThreads
    /\ Len(accepted) >= MaxCalls
    /\ \A k \in 1..MaxCalls : completed[k] = 1

\* -------------------------------------------------------------------- C2
\* C2: a POOL_exectask call made once is_shutdown is true returns false to
\* its caller (and a call that returns false pushed nothing).
C2_SubmitAfterShutdownReturnsFalse ==
    \A t \in Threads :
        (pc[t] = "ex_lock" /\ is_shutdown) ~> (last_ret[t] = "false")

\* -------------------------------------------------------------------- C3
\* C3: under fair scheduling a call of POOL_destroy returns.
C3_DestroyTerminates ==
    (pc[MainThread] = "d_lock1") ~> DestroyReturned

\* -------------------------------------------------------------------- C4
\* C4: a thread holds the pool mutex only inside a critical section; after
\* POOL_exectask has returned (true or false) its caller does not hold it.
C4_ExectaskReleasesMutex ==
    \A t \in Threads : Holds(t) => pc[t] \in CriticalLocs

\* -------------------------------------------------------------------- C5
\* C5: the stack is a NULL-terminated acyclic list of live records; records
\* in the stack plus records dequeued equals calls accepted; and every
\* accepted task is either in the stack once, or dequeued once.
WellFormed ==
    /\ Len(Stack) <= Cardinality(Addrs)
    /\ \A i \in 1..Len(Stack) : Stack[i] \in allocated
    /\ \A i, j \in 1..Len(Stack) : i # j => Stack[i] # Stack[j]

\* Workers holding a record they popped and have not extracted yet.
Holding(k) ==
    Cardinality({w \in Workers : /\ pc[w] \in {"w_unlock", "w_extract"}
                                 /\ work[w] # NULL
                                 /\ heap[work[w]].task_args = k})

C5_NoTaskLostOrDuplicated ==
    /\ WellFormed
    /\ Len(Stack) + popped = Len(accepted)
    /\ \A k \in TaskIds :
          Count(accepted, k) = Count(StackTasks, k) + Holding(k) + Count(started, k)

C5_Witness ==
    /\ Len(Stack) >= 2
    /\ popped >= 1
    /\ pc[MainThread] = "ex_lock"
    /\ \E w \in Workers : pc[w] = "ex_unlock"

\* -------------------------------------------------------------------- C6
Reverse(s) == [i \in 1..Len(s) |-> s[Len(s) + 1 - i]]
IsPrefix(a, b) == Len(a) <= Len(b) /\ \A i \in 1..Len(a) : a[i] = b[i]
\* The position of task k in the order of acceptance (0: never accepted).
AcceptIndex(k) ==
    IF \E i \in 1..Len(accepted) : accepted[i] = k
    THEN CHOOSE i \in 1..Len(accepted) : accepted[i] = k
    ELSE 0

\* C6: a worker that has just popped a record (it still holds the mutex)
\* took the task accepted later than every task left in the stack; and with
\* one worker and no push after the first pop, tasks start in the reverse of
\* the order they were accepted in.
C6_DequeueIsLIFO ==
    /\ \A w \in Workers :
          (pc[w] = "w_unlock" /\ work[w] # NULL) =>
              /\ AcceptIndex(heap[work[w]].task_args) > 0
              /\ \A i \in 1..Len(StackTasks) :
                    AcceptIndex(StackTasks[i]) < AcceptIndex(heap[work[w]].task_args)
    /\ (num_threads = 1 /\ ~pop_before_push) => IsPrefix(started, Reverse(accepted))

C6_Witness ==
    /\ num_threads = 1
    /\ ~pop_before_push
    /\ accepted = <<1, 2, 3>>
    /\ started = <<3, 2, 1>>

\* -------------------------------------------------------------------- C7
\* C7: once POOL_destroy has left its second wait loop, and so when it
\* returns, num_threads_running is 0, the stack is empty and every worker of
\* the pool is EXITED; the mutex is never destroyed nor the handle array
\* freed while a worker is not EXITED.
C7_DestroyLeavesNoWorkerRunning ==
    /\ pc[MainThread] \in {"d_teardown", "destroyed"} =>
          /\ num_threads_running = 0
          /\ task_stack = NULL
          /\ \A w \in Pool : pc[w] = "EXITED"
    /\ (pool_mutex.state = "destroyed" \/ threads.alloc = "freed") =>
          \A w \in Pool : pc[w] = "EXITED"

C7_Witness ==
    /\ pool_mutex.state = "destroyed"
    /\ threads.alloc = "freed"
    /\ \A w \in Workers : pc[w] = "EXITED"
    /\ Len(accepted) > MaxCalls

\* -------------------------------------------------------------------- C8
\* C8: never more than num_threads tasks are in progress; with one worker,
\* when POOL_destroy returns the counter equals the number of accepted
\* increment tasks.
C8_OneWorkerCountsExactly ==
    /\ Cardinality({w \in Workers : InTask(w)}) <= num_threads
    /\ (DestroyReturned /\ num_threads = 1) =>
          counter = (IF workload = "incr" THEN Len(accepted) ELSE 0)

C8_Witness ==
    /\ DestroyReturned
    /\ num_threads = 1
    /\ workload = "incr"
    /\ counter = MaxCalls

\* With two workers an increment can be lost (the reason C8 names one worker).
LostUpdateReachable ==
    DestroyReturned /\ workload = "incr" /\ counter < Len(accepted)

\* -------------------------------------------------------------------- C9
\* C9: under fair scheduling every accepted task is eventually run to
\* completion.
C9_AcceptedTaskCompletes ==
    \A k \in TaskIds : (Count(accepted, k) > 0) ~> (completed[k] > 0)

\* ------------------------------------------------------------------- C10
\* C10: at most one thread is inside a critical section, it is the thread
\* that holds the mutex, and no critical-section body ever ran without the
\* mutex held by the thread running it.
C10_MutualExclusion ==
    /\ ~unlocked_access
    /\ Cardinality({t \in Threads : pc[t] \in CriticalLocs}) <= 1
    /\ \A t \in Threads : pc[t] \in CriticalLocs => Holds(t)

C10_Witness ==
    /\ pc[MainThread] = "d_read_stack"
    /\ \E w \in Workers : pc[w] = "ex_lock"
    /\ \E w \in Workers : pc[w] = "w_lock"

\* ------------------------------------------------------------------- C11
\* Locations of a task function that does not call into the pool.
BusyLocs == {"t_incr_read", "t_incr_write"}

ExitLocs == {"w_exit_unlock", "EXITED"}

\* No worker has left its loop unless shutdown has begun and the stack is
\* empty.
ExitedOnlyWhenDrained ==
    \A w \in Workers : pc[w] \in ExitLocs => (is_shutdown /\ task_stack = NULL)

\* C12: a worker leaves its loop only from its critical section, holding
\* the mutex, with is_shutdown true and the stack empty; no worker is out of
\* its loop before shutdown or while a record is queued; and an EXITED
\* worker takes no further step (it neither dequeues nor executes a task).
C12_WorkerExitsOnlyWhenDrained ==
    [][/\ \A w \in Workers :
             /\ (pc[w] \notin ExitLocs /\ pc'[w] \in ExitLocs) =>
                   /\ pc[w] = "w_cs"
                   /\ Holds(w)
                   /\ is_shutdown
                   /\ task_stack = NULL
             /\ pc[w] = "w_exit_unlock" => pc'[w] \in ExitLocs
             /\ pc[w] = "EXITED" =>
                   /\ pc'[w] = "EXITED"
                   /\ work'[w] = work[w]
                   /\ cur'[w] = cur[w]
       /\ ExitedOnlyWhenDrained']_vars

C12_Witness ==
    /\ \E w \in Workers : pc[w] = "EXITED"
    /\ \E w \in Workers : pc[w] = "t_incr_write"

\* ------------------------------------------------------------------- C13
\* POOL_create has initialised the pool.
Created == pc[MainThread] # "create"

\* The workers that have counted themselves out.
CountedOut == {w \in Workers : pc[w] \in ExitLocs}

\* num_threads_running is num_threads minus the workers that counted
\* themselves out, it is num_threads before shutdown, and it is not negative
\* (the size_t counter does not wrap around).
RunningMatchesWorkers ==
    Created =>
        /\ num_threads_running = num_threads - Cardinality(CountedOut)
        /\ ~is_shutdown => num_threads_running = num_threads
        /\ num_threads_running >= 0

\* C13: RunningMatchesWorkers holds in every state; once the pool is created
\* the counter never increases and drops by exactly one in the step in which
\* a worker leaves its loop, and in no other step.
C13_RunningCountsLiveWorkers ==
    [][/\ RunningMatchesWorkers'
       /\ Created =>
             /\ num_threads_running' <= num_threads_running
             /\ num_threads_running' =
                   num_threads_running
                   - Cardinality({w \in Workers : pc[w] \notin ExitLocs
                                                  /\ pc'[w] \in ExitLocs})]_vars

C13_Witness ==
    /\ num_threads = MaxThreads
    /\ num_threads_running = 1
    /\ \E w \in Workers : pc[w] = "EXITED"
    /\ \E w \in Workers : InTask(w)

\* ------------------------------------------------------------------- C14
\* The records of the stack with their contents, head first.
StackRecords == [i \in 1..Len(Stack) |-> heap[Stack[i]]]

\* C14: the critical section of an accepted POOL_exectask call (is_shutdown
\* false) makes one fresh record with the call's task_fn and task_args the
\* new head, keeps the old records, contents and order, beneath it, and
\* leaves num_threads_running, num_threads and is_shutdown alone; the lock
\* and unlock steps of the call change none of these, and the call returns
\* true.
C14_AcceptedCallPushesOneRecord ==
    [][\A t \in Threads :
          /\ (pc[t] = "ex_cs" /\ pc'[t] = "ex_unlock") =>
                /\ ~is_shutdown
                /\ task_stack' \notin allocated
                /\ task_stack' # NULL
                /\ Stack' = <<task_stack'>> \o Stack
                /\ StackRecords' =
                      <<[task_fn |-> ex[t].task_fn,
                         task_args |-> ex[t].task_args,
                         next |-> task_stack]>> \o StackRecords
                /\ UNCHANGED <<num_threads_running, num_threads, is_shutdown>>
          /\ (pc[t] \in {"ex_lock", "ex_unlock"} /\ pc'[t] # pc[t]) =>
                /\ Stack' = Stack
                /\ StackRecords' = StackRecords
                /\ UNCHANGED <<num_threads_running, num_threads, is_shutdown>>
          /\ (pc[t] = "ex_unlock" /\ pc'[t] # pc[t]) => last_ret'[t] = "true"]_vars

C14_Witness ==
    /\ \E w \in Workers : pc[w] = "ex_unlock" /\ last_ret[w] = "pending"
    /\ Len(Stack) = 3
    /\ ~is_shutdown

\* ------------------------------------------------------------------- C15
\* The steps of one worker iteration outside the task it runs.
IterationLocs == {"w_lock", "w_cs", "w_unlock", "w_extract"}

\* C15: a worker iteration that does not exit takes at most one record off
\* the stack. On a non-empty stack its critical section unlinks exactly the
\* head, which becomes the worker's `work`, and the records beneath keep
\* their contents and order; on an empty stack it leaves task_stack,
\* num_threads_running and is_shutdown unchanged, has no work, and goes
\* round the loop again. No other step of the iteration touches the stack,
\* and the worker is never counted out.
C15_IterationPopsAtMostHead ==
    [][\A w \in Workers :
          /\ (pc[w] = "w_cs" /\ pc'[w] = "w_unlock") =>
                /\ ~(is_shutdown /\ task_stack = NULL)
                /\ IF task_stack # NULL
                   THEN /\ work'[w] = task_stack
                        /\ Stack = <<task_stack>> \o Stack'
                        /\ StackRecords' = Tail(StackRecords)
                        /\ heap'[work'[w]] = heap[task_stack]
                   ELSE /\ work'[w] = NULL
                        /\ UNCHANGED task_stack
                        /\ Stack' = << >>
                /\ UNCHANGED <<num_threads_running, is_shutdown>>
          /\ (pc[w] \in (IterationLocs \ {"w_cs"}) /\ pc'[w] # pc[w]) =>
                /\ Stack' = Stack
                /\ StackRecords' = StackRecords
                /\ UNCHANGED <<num_threads_running, is_shutdown>>
                /\ pc'[w] \notin ExitLocs
          /\ (pc[w] = "w_unlock" /\ work[w] = NULL /\ pc'[w] # pc[w]) =>
                pc'[w] = "w_lock"]_vars

C15_Witness ==
    \E w \in Workers :
       /\ pc[w] = "w_unlock"
       /\ work[w] # NULL
       /\ Len(Stack) = 2
       /\ is_shutdown

\* ------------------------------------------------------------------- C16
\* The workers pthread_create has started so far.
Started == {w \in Workers : pc[w] # "unborn"}

\* The pool as POOL_create's assignments leave it.
FreshPool ==
    /\ task_stack = NULL
    /\ ~is_shutdown
    /\ num_threads_running = num_threads
    /\ MutexFree

CreateEstablishesPool ==
    /\ pc[MainThread] = "create" => Started = {}
    /\ (pc[MainThread] = "create_loop" /\ spawn_i = 0) =>
          /\ FreshPool
          /\ Started = {}
          /\ \A w \in Workers : ~ENABLED WorkerStep(w)
    /\ pc[MainThread] = "create_loop" =>
          /\ spawn_i <= num_threads
          /\ Started = 1..spawn_i
          /\ threads.handles = Started
    /\ pc[MainThread] \notin {"create", "create_loop"} =>
          /\ Started = Pool
          /\ Cardinality(Started) = num_threads
          /\ threads.handles = Pool

\* C16: POOL_create(N) sets up the pool before any worker can act on it:
\* when the first worker is spawned the stack is empty, is_shutdown is false,
\* num_threads_running = num_threads = N and the mutex is unlocked; each
\* pthread_create starts one worker at the top of its loop, counted as
\* running, and when POOL_create returns exactly N workers have been started.
C16_CreateEstablishesPool ==
    [][/\ CreateEstablishesPool
       /\ CreateEstablishesPool'
       /\ (pc[MainThread] = "create" /\ pc'[MainThread] # "create") => FreshPool'
       /\ \A w \in Workers :
             (pc[w] = "unborn" /\ pc'[w] # "unborn") =>
                /\ pc[MainThread] = "create_loop"
                /\ pc'[w] = "w_lock"
                /\ Started' = Started \cup {w}
                /\ num_threads_running' = num_threads
                /\ w = 1 => FreshPool]_vars

C16_Witness ==
    /\ pc[MainThread] = "create_loop"
    /\ num_threads = MaxThreads
    /\ spawn_i = MaxThreads
    /\ pc[1] = "w_cs"
    /\ pc[MaxThreads] = "w_lock"

\* ------------------------------------------------------------------- C17
\* POOL_destroy's first wait loop has read task_stack as NULL.
ObservedEmpty ==
    \/ pc[MainThread] = "d_unlock2" /\ ~waiting
    \/ pc[MainThread] \in {"d_lock3", "d_read_running", "d_unlock3",
                           "d_teardown", "destroyed"}

\* C17: once is_shutdown is true it stays true and no step lengthens the
\* task stack, so from the moment POOL_destroy's first wait loop has read
\* the stack as empty the stack is empty in every state: the second wait
\* loop never runs with queued work.
C17_NoGrowthAfterShutdown ==
    [][/\ is_shutdown => (is_shutdown' /\ Len(Stack') <= Len(Stack))
       /\ ObservedEmpty => (task_stack = NULL /\ ObservedEmpty')
       /\ ObservedEmpty' => task_stack' = NULL]_vars

C17_Witness ==
    /\ pc[MainThread] = "d_lock3"
    /\ \E w \in Workers : pc[w] = "ex_cs" /\ Holds(w)

\* ------------------------------------------------------------------- C18
\* pthread_mutex_destroy or free(pool->threads) has run.
TornDown == pool_mutex.state = "destroyed" \/ threads.alloc = "freed"

\* POOL_destroy's second wait loop has read num_threads_running as 0.
ObservedZero ==
    \/ pc[MainThread] = "d_unlock3" /\ ~waiting
    \/ pc[MainThread] \in {"d_teardown", "destroyed"}

\* C18: no use after teardown. Once the mutex is destroyed and the handle
\* array freed, no worker takes a step and the pool's fields keep their
\* values; a worker's last step on the pool is the unlock that follows its
\* decrement of num_threads_running, after which it never acts again, and
\* every such unlock has happened before POOL_destroy reads
\* num_threads_running as 0.
C18_NoUseAfterTeardown ==
    [][/\ TornDown =>
             /\ TornDown'
             /\ \A w \in Workers : pc'[w] = pc[w]
             /\ UNCHANGED <<pool, heap, work, cur, ex>>
       /\ \A w \in Workers :
             /\ pc[w] = "EXITED" =>
                   /\ pc'[w] = "EXITED"
                   /\ ~ENABLED WorkerStep(w)
             /\ (pc[w] # "w_exit_unlock" /\ pc'[w] = "w_exit_unlock") =>
                   /\ Holds(w)
                   /\ num_threads_running' = num_threads_running - 1
                   /\ ~ObservedZero
             /\ (pc[w] = "w_exit_unlock" /\ pc'[w] # pc[w]) =>
                   /\ Holds(w)
                   /\ MutexFree'
                   /\ pc'[w] = "EXITED"
                   /\ ~ObservedZero
                   /\ ~TornDown'
       /\ ObservedZero => \A w \in Pool : pc[w] = "EXITED"
       /\ ObservedZero' => \A w \in Pool : pc'[w] = "EXITED"]_vars

C18_Witness ==
    /\ pc[MainThread] = "destroyed"
    /\ pool_mutex.state = "destroyed"
    /\ threads.alloc = "freed"
    /\ num_threads = MaxThreads
    /\ workload = "incr"
    /\ popped = MaxCalls

====
